---------------------------- MODULE Spec2Model ----------------------------
(***************************************************************************)
(* Model of the LLM text processor: the in-memory result store             *)
(* (app/storage.py), the reporting engine (app/business_logic.py), the     *)
(* text-analysis provider (app/llm_service.py) and the POST /process and   *)
(* GET handlers of the gateway (app/main.py).                              *)
(*                                                                         *)
(* Four specifications share the variables:                                *)
(*   Spec         the gateway: the store changes only through POST /process*)
(*   SpecProvider direct calls of LLMService.process_text                  *)
(*   SpecStore    direct callers of InMemoryStorage and BusinessLogic      *)
(*   SpecConc     several threads inside save_result, one source line a    *)
(*                step                                                     *)
(***************************************************************************)
EXTENDS Integers, Sequences, FiniteSets, TLC

VARIABLES
    provider,     \* LLMService.provider, fixed at construction
    results,      \* InMemoryStorage.results: insertion-ordered dict, a sequence of [key, value]
    uuidsIssued,  \* how many values uuid.uuid4() has handed out
    clock,        \* the reading datetime.now() gives
    skewed,       \* TRUE once the wall clock has been set backwards
    returned,     \* history: the records save_result has returned, in order of return
    okRequests,   \* history: POST /process requests answered with status 200
    calls,        \* per caller thread: its position inside save_result and its locals
    last          \* the most recent call and what its caller observed

vars == <<provider, results, uuidsIssued, clock, skewed, returned, okRequests, calls, last>>

----------------------------------------------------------------------------
(* Bounds of the model *)

MaxRecords == 2       \* save_result calls (SpecStore) / POST /process requests stored (Spec)
MaxClock == 1         \* largest clock reading
TicksPerHour == 1     \* clock readings per hour: timedelta(hours=h) is h * TicksPerHour
NumCallers == 2       \* threads calling save_result concurrently (SpecConc)

(* Program constant: the word threshold of summarize_text *)
SHORT_TEXT_WORDS == 30

----------------------------------------------------------------------------
(* Python values.  A str is modelled two ways: PyStr for the labels and    *)
(* messages the program compares or emits, PyText for free text as a       *)
(* sequence of characters (so that split, strip and len are computed).     *)

PyNone == [t |-> "NoneType"]
PyStr(s) == [t |-> "str", s |-> s]
PyText(chars) == [t |-> "str", chars |-> chars]
PyNum(n) == [t |-> "num", n |-> n]
PyList(l) == [t |-> "list", l |-> l]
PyDict(d) == [t |-> "dict", d |-> d]

IsDict(v) == v.t = "dict"
HasKey(v, k) == k \in DOMAIN v.d

(* Outcome of a call: it returns a value or raises; `backend` lists the     *)
(* backend endpoints the call invoked.                                      *)
Return(v, b) == [raised |-> FALSE, value |-> v, backend |-> b]
Raise(e, b) == [raised |-> TRUE, exc |-> e, backend |-> b]

Exc(type) == [type |-> type]
HTTPException(status_code, cause) ==
    [type |-> "HTTPException", status_code |-> status_code, cause |-> cause]

----------------------------------------------------------------------------
(* Text *)

IsSpace(c) == c \in {" ", "\t", "\n"}

RECURSIVE split_from(_, _, _, _)
split_from(chars, i, cur, acc) ==
    IF i > Len(chars)
    THEN (IF cur = <<>> THEN acc ELSE Append(acc, cur))
    ELSE IF IsSpace(chars[i])
         THEN split_from(chars, i + 1, <<>>, IF cur = <<>> THEN acc ELSE Append(acc, cur))
         ELSE split_from(chars, i + 1, Append(cur, chars[i]), acc)

(* str.split(): the maximal runs of non-whitespace characters *)
split(text) == split_from(text.chars, 1, <<>>, <<>>)

RECURSIVE lstrip(_)
lstrip(chars) ==
    IF chars # <<>> /\ IsSpace(Head(chars)) THEN lstrip(Tail(chars)) ELSE chars

RECURSIVE rstrip(_)
rstrip(chars) ==
    IF chars # <<>> /\ IsSpace(chars[Len(chars)])
    THEN rstrip(SubSeq(chars, 1, Len(chars) - 1))
    ELSE chars

(* str.strip() *)
strip(text) == PyText(rstrip(lstrip(text.chars)))

(* len(str) *)
len(text) == Len(text.chars)

(* n words "w" separated by single spaces *)
Words(n) == PyText([i \in 1..(2 * n - 1) |-> IF i % 2 = 1 THEN "w" ELSE " "])

(* The texts of the model: empty (rejected by the request model); zero    *)
(* words; one word; three words; one word longer than 30 characters; 29    *)
(* words with surrounding and repeated whitespace; 30 words; 31 words.     *)
TEmpty == PyText(<<>>)
T0 == PyText(<<" ">>)
T1 == PyText(<<"w">>)
T3 == Words(3)
TLong == PyText([i \in 1..(SHORT_TEXT_WORDS + 5) |-> "w"])
T29 == PyText(<<" ", "\t">> \o Words(SHORT_TEXT_WORDS - 1).chars \o <<" ", " ", "\n">>)
T30 == Words(SHORT_TEXT_WORDS)
T31 == Words(SHORT_TEXT_WORDS + 1)

ProviderTexts == {T0, T1, TLong, T29, T30, T31}
RequestTexts == {TEmpty, T29, T30}
Texts == ProviderTexts \cup RequestTexts \cup {T3}

----------------------------------------------------------------------------
(* InMemoryStorage *)

(* mutant: the id is derived from the timestamp instead of uuid4 *)
uuid4_from_clock == clock + 1

(* mutant: the id is the size of the store plus one *)
uuid4_from_size == Len(results) + 1

(* uuid.uuid4(): a value it has not handed out before *)
uuid4 == uuidsIssued + 1

(* datetime.now() *)
now == clock

Keys(d) == {d[i].key : i \in 1..Len(d)}

IndexOf(d, k) == CHOOSE i \in 1..Len(d) : d[i].key = k

(* d[k] = v on an insertion-ordered dict: a present key keeps its place *)
DictSet(d, k, v) ==
    IF k \in Keys(d)
    THEN [d EXCEPT ![IndexOf(d, k)] = [key |-> k, value |-> v]]
    ELSE Append(d, [key |-> k, value |-> v])

(* mutant: the lookup ignores the key and yields the newest entry *)
DictGet_latest(d, k) == IF d = <<>> THEN PyNone ELSE d[Len(d)].value

(* d.get(k): the value, or None *)
DictGet(d, k) == IF k \in Keys(d) THEN d[IndexOf(d, k)].value ELSE PyNone

(* list(d.values()) *)
DictValues(d) == [i \in 1..Len(d) |-> d[i].value]

(* the record save_result builds (storage.py lines 15-21) *)
NewRecord(result_id, original_text, processed_result, task_type, timestamp) ==
    [id |-> result_id,
     original_text |-> original_text,
     processed_result |-> processed_result,
     task_type |-> task_type,
     created_at |-> timestamp]

get_all_results == DictValues(results)

get_result_by_id(result_id) == DictGet(results, result_id)

----------------------------------------------------------------------------
(* BusinessLogic *)

(* round(num / den, digits) as an integer count of 10^-digits units,       *)
(* scale = 10^digits; an exact tie goes to the even neighbour.              *)
Round(num, den, scale) ==
    LET q == (num * scale) \div den
        r == (num * scale) % den
    IN  IF 2 * r < den THEN q
        ELSE IF 2 * r > den THEN q + 1
        ELSE IF q % 2 = 0 THEN q ELSE q + 1

(* mutant: the counter is set to 1 instead of incremented *)
RECURSIVE count_tasks_overwrite(_, _, _)
count_tasks_overwrite(rs, i, task_counts) ==
    IF i > Len(rs) THEN task_counts
    ELSE count_tasks_overwrite(rs, i + 1, task_counts @@ (rs[i].task_type :> 1))

RECURSIVE count_tasks(_, _, _)
count_tasks(rs, i, task_counts) ==
    IF i > Len(rs) THEN task_counts
    ELSE LET task == rs[i].task_type
             seen == IF task \notin DOMAIN task_counts
                     THEN task_counts @@ (task :> 0)
                     ELSE task_counts
         IN  count_tasks(rs, i + 1, [seen EXCEPT ![task] = @ + 1])

RECURSIVE sum_text_length(_, _)
sum_text_length(rs, i) ==
    IF i > Len(rs) THEN 0 ELSE len(rs[i].original_text) + sum_text_length(rs, i + 1)

(* average_text_length is kept in hundredths *)
get_processing_stats ==
    LET rs == get_all_results
        task_counts == count_tasks(rs, 1, <<>>)
        avg_text_length == IF rs # <<>>
                           THEN Round(sum_text_length(rs, 1), Len(rs), 100)
                           ELSE 0
    IN  [total_processed |-> Len(rs),
         by_task_type |-> task_counts,
         average_text_length |-> avg_text_length]

(* isinstance(x, datetime): created_at is always a clock reading *)
IsDatetime(x) == x \in Int

(* mutant: the window includes its boundary *)
IsRecent_inclusive(created_at, cutoff_time) == created_at >= cutoff_time

(* r["created_at"] > cutoff_time *)
IsRecent(created_at, cutoff_time) == created_at > cutoff_time

RECURSIVE recent_from(_, _, _)
recent_from(rs, i, cutoff_time) ==
    IF i > Len(rs) THEN <<>>
    ELSE IF IsDatetime(rs[i].created_at) /\ IsRecent(rs[i].created_at, cutoff_time)
         THEN <<rs[i]>> \o recent_from(rs, i + 1, cutoff_time)
         ELSE recent_from(rs, i + 1, cutoff_time)

get_recent_activity(hours) ==
    LET rs == get_all_results
        cutoff_time == now - hours * TicksPerHour
    IN  recent_from(rs, 1, cutoff_time)

RECURSIVE sentiment_from(_, _)
sentiment_from(rs, i) ==
    IF i > Len(rs) THEN <<>>
    ELSE IF rs[i].task_type = "sentiment"
         THEN <<rs[i]>> \o sentiment_from(rs, i + 1)
         ELSE sentiment_from(rs, i + 1)

(* a list or a dict cannot be a dict key *)
Hashable(v) == v.t \notin {"list", "dict"}

(* processed_result.get("sentiment", "UNKNOWN") on a dict *)
SentimentLabel(processed_result) ==
    IF HasKey(processed_result, "sentiment")
    THEN processed_result.d.sentiment
    ELSE PyStr("UNKNOWN")

RECURSIVE count_sentiments(_, _, _)
count_sentiments(sr, i, distribution) ==
    IF i > Len(sr) THEN Return(distribution, <<>>)
    ELSE IF ~IsDict(sr[i].processed_result)
         THEN Raise(Exc("AttributeError"), <<>>)
         ELSE LET sentiment == SentimentLabel(sr[i].processed_result)
                  seen == IF sentiment \notin DOMAIN distribution
                          THEN distribution @@ (sentiment :> 0)
                          ELSE distribution
              IN  IF ~Hashable(sentiment)
                  THEN Raise(Exc("TypeError"), <<>>)
                  ELSE count_sentiments(sr, i + 1, [seen EXCEPT ![sentiment] = @ + 1])

get_sentiment_distribution ==
    count_sentiments(sentiment_from(get_all_results, 1), 1, <<>>)

----------------------------------------------------------------------------
(* The backends.  A backend call raises or answers; what it answers is not *)
(* under the program's control, so every call draws its response from a    *)
(* set.  The content of a chat completion is None or a str; a str the JSON *)
(* operations receive is modelled by whether json.loads parses it and by   *)
(* the document it parses to.  Scores are fractions num/den.                *)

OPENAI_CHAT == "openai.chat.completions.create"
HF_SUMMARIZER == "hf.summarizer"
HF_NER == "hf.ner_pipeline"
HF_SENTIMENT == "hf.sentiment_analyzer"

NotCalled == [called |-> FALSE]
BackendRaises == [called |-> TRUE, raised |-> TRUE, exc |-> Exc("BackendError")]
BackendAnswers(a) == [called |-> TRUE, raised |-> FALSE, answer |-> a]

JsonStr(doc) == [t |-> "str", parses |-> TRUE, doc |-> doc]
NotJson == [t |-> "str", parses |-> FALSE]

SentimentDoc(label, score) == PyDict([sentiment |-> label, score |-> PyNum(score)])

OpenAIContents(task) ==
    CASE task = "summarize" ->
           {PyNone, PyText(<<" ", "w", " ", "w", "\n">>)}
      [] task = "entities" ->
           {PyNone, NotJson,
            JsonStr(PyDict([PERSON |-> PyList(<<PyStr("Ada")>>)])),
            JsonStr(PyList(<<PyStr("Ada")>>))}
      [] task = "sentiment" ->
           {PyNone, NotJson,
            JsonStr(SentimentDoc(PyStr("POSITIVE"), 900)),
            JsonStr(PyDict([label |-> PyStr("good")])),
            JsonStr(PyList(<<PyStr("POSITIVE")>>))}
      [] OTHER -> {}

Mention(type, word, num) == [entity |-> type, word |-> word, score |-> [num |-> num, den |-> 100000]]

HuggingFaceAnswers(task) ==
    CASE task = "summarize" ->
           {[summary_text |-> PyText(<<"w", " ", "w">>)]}
      [] task = "entities" ->
           {<<Mention("B-PER", "Ada", 99871), Mention("B-LOC", "Paris", 87512),
              Mention("B-PER", "Bob", 43218)>>}
      [] task = "sentiment" ->
           {[label |-> "POSITIVE", score |-> [num |-> 99871, den |-> 100000]],
            [label |-> "NEGATIVE", score |-> [num |-> 87512, den |-> 100000]]}
      [] OTHER -> {}

TaskNames == {"summarize", "entities", "sentiment", "translate"}

BackendResponses(task) ==
    IF task \notin {"summarize", "entities", "sentiment"} THEN {NotCalled}
    ELSE {BackendRaises} \cup
         {BackendAnswers(a) : a \in IF provider = "openai"
                                    THEN OpenAIContents(task)
                                    ELSE HuggingFaceAnswers(task)}

----------------------------------------------------------------------------
(* LLMService *)

(* json.loads(content) *)
json_loads(content) ==
    IF content = PyNone THEN Raise(Exc("TypeError"), <<>>)
    ELSE IF ~content.parses THEN Raise(Exc("JSONDecodeError"), <<>>)
    ELSE Return(content.doc, <<>>)

NOTE_SHORT == PyStr("Text too short for meaningful summarization")

(* mutant: the threshold is inclusive *)
IsTooShort_inclusive(text) == Len(split(text)) <= SHORT_TEXT_WORDS

(* len(text.split()) < 30 *)
IsTooShort(text) == Len(split(text)) < SHORT_TEXT_WORDS

(* the test of each text of the model, evaluated once *)
TooShort == [text \in Texts |-> IsTooShort(text)]

summarize_text(text, b) ==
    IF TooShort[text]
    THEN Return(PyDict([summary |-> text, note |-> NOTE_SHORT]), <<>>)
    ELSE IF provider = "openai"
         THEN IF b.raised THEN Raise(b.exc, <<OPENAI_CHAT>>)
              ELSE IF b.answer = PyNone
                   THEN Raise(Exc("AttributeError"), <<OPENAI_CHAT>>)
                   ELSE Return(PyDict([summary |-> strip(b.answer)]), <<OPENAI_CHAT>>)
         ELSE IF b.raised THEN Raise(b.exc, <<HF_SUMMARIZER>>)
              ELSE Return(PyDict([summary |-> b.answer.summary_text]), <<HF_SUMMARIZER>>)

RECURSIVE group_entities(_, _, _)
group_entities(entities, i, grouped_entities) ==
    IF i > Len(entities) THEN grouped_entities
    ELSE LET entity == entities[i]
             entity_type == entity.entity
             seen == IF entity_type \notin DOMAIN grouped_entities
                     THEN grouped_entities @@ (entity_type :> PyList(<<>>))
                     ELSE grouped_entities
             item == PyDict([word |-> PyStr(entity.word),
                             score |-> PyNum(Round(entity.score.num, entity.score.den, 1000))])
         IN  group_entities(entities, i + 1,
                            [seen EXCEPT ![entity_type] = PyList(Append(@.l, item))])

ENTITY_ERROR == PyStr("Failed to parse entity extraction result")

extract_entities(text, b) ==
    IF provider = "openai"
    THEN IF b.raised THEN Raise(b.exc, <<OPENAI_CHAT>>)
         ELSE LET parsed == json_loads(b.answer)
              IN  IF ~parsed.raised
                  THEN Return(PyDict([entities |-> parsed.value]), <<OPENAI_CHAT>>)
                  ELSE IF parsed.exc = Exc("JSONDecodeError")
                       THEN Return(PyDict([entities |-> PyDict(<<>>), error |-> ENTITY_ERROR]),
                                   <<OPENAI_CHAT>>)
                       ELSE Raise(parsed.exc, <<OPENAI_CHAT>>)
    ELSE IF b.raised THEN Raise(b.exc, <<HF_NER>>)
         ELSE Return(PyDict([entities |-> PyDict(group_entities(b.answer, 1, <<>>))]),
                     <<HF_NER>>)

SENTIMENT_ERROR == PyStr("Failed to parse sentiment analysis result")

SentimentFallback ==
    PyDict([sentiment |-> PyStr("NEUTRAL"), score |-> PyNum(500), error |-> SENTIMENT_ERROR])

analyze_sentiment(text, b) ==
    IF provider = "openai"
    THEN IF b.raised THEN Raise(b.exc, <<OPENAI_CHAT>>)
         ELSE LET parsed == json_loads(b.answer)
              IN  IF ~parsed.raised
                  THEN Return(parsed.value, <<OPENAI_CHAT>>)
                  ELSE IF parsed.exc = Exc("JSONDecodeError")
                       THEN Return(SentimentFallback, <<OPENAI_CHAT>>)
                       ELSE Raise(parsed.exc, <<OPENAI_CHAT>>)
    ELSE IF b.raised THEN Raise(b.exc, <<HF_SENTIMENT>>)
         ELSE Return(PyDict([sentiment |-> PyStr(b.answer.label),
                             score |-> PyNum(Round(b.answer.score.num, b.answer.score.den, 1000))]),
                     <<HF_SENTIMENT>>)

(* LLMService.process_text *)
process_text(text, task, b) ==
    IF task = "summarize" THEN summarize_text(text, b)
    ELSE IF task = "entities" THEN extract_entities(text, b)
    ELSE IF task = "sentiment" THEN analyze_sentiment(text, b)
    ELSE Raise(Exc("ValueError"), <<>>)

----------------------------------------------------------------------------
(* Inputs of the direct callers (SpecStore, SpecConc) *)

SaveInputs ==
    { [text |-> T1, task |-> "summarize",
       result |-> PyDict([summary |-> T1, note |-> NOTE_SHORT])],
      [text |-> T3, task |-> "entities",
       result |-> PyDict([entities |-> PyDict(<<>>)])],
      [text |-> T3, task |-> "sentiment",
       result |-> PyDict([sentiment |-> PyStr("POSITIVE"), score |-> PyNum(999)])],
      [text |-> T1, task |-> "sentiment",
       result |-> PyDict([sentiment |-> PyStr(""), score |-> PyNum(500)])],
      [text |-> T3, task |-> "sentiment",
       result |-> PyDict([sentiment |-> PyNone, score |-> PyNum(500)])],
      [text |-> T1, task |-> "sentiment",
       result |-> PyDict([score |-> PyNum(500)])] }

QueryIds == 1..(MaxRecords + 1)

Hours == {0, 1}

----------------------------------------------------------------------------
(* Initial state: the module-level singletons right after import *)

Init ==
    /\ provider \in {"openai", "huggingface"}
    /\ results = <<>>
    /\ uuidsIssued = 0
    /\ clock = 0
    /\ skewed = FALSE
    /\ returned = <<>>
    /\ okRequests = 0
    /\ calls = [c \in 1..NumCallers |-> [pc |-> "idle"]]
    /\ last = [op |-> "none"]

----------------------------------------------------------------------------
(* The wall clock *)

Tick ==
    /\ clock < MaxClock
    /\ clock' = clock + 1
    /\ UNCHANGED <<provider, results, uuidsIssued, skewed, returned, okRequests, calls, last>>

(* the wall clock is set back by one reading (NTP step, DST) *)
ClockAdjust ==
    /\ clock > 0
    /\ clock' = clock - 1
    /\ skewed' = TRUE
    /\ UNCHANGED <<provider, results, uuidsIssued, returned, okRequests, calls, last>>

----------------------------------------------------------------------------
(* Direct calls of the store and of the reporting engine *)

SaveResult ==
    /\ Len(returned) < MaxRecords
    /\ \E inp \in SaveInputs :
         LET result == NewRecord(uuid4, inp.text, inp.result, inp.task, now)
         IN  /\ results' = DictSet(results, result.id, result)
             /\ returned' = Append(returned, result)
             /\ last' = [op |-> "save_result", ret |-> result]
    /\ uuidsIssued' = uuidsIssued + 1
    /\ UNCHANGED <<provider, clock, skewed, okRequests, calls>>

GetAllResults ==
    /\ last' = [op |-> "get_all_results", ret |-> get_all_results]
    /\ UNCHANGED <<provider, results, uuidsIssued, clock, skewed, returned, okRequests, calls>>

GetResultById ==
    /\ \E result_id \in QueryIds :
         last' = [op |-> "get_result_by_id", arg |-> result_id,
                  ret |-> get_result_by_id(result_id)]
    /\ UNCHANGED <<provider, results, uuidsIssued, clock, skewed, returned, okRequests, calls>>

GetProcessingStats ==
    /\ last' = [op |-> "get_processing_stats", ret |-> get_processing_stats]
    /\ UNCHANGED <<provider, results, uuidsIssued, clock, skewed, returned, okRequests, calls>>

GetRecentActivity ==
    /\ \E hours \in Hours :
         last' = [op |-> "get_recent_activity", hours |-> hours, at |-> now,
                  ret |-> get_recent_activity(hours)]
    /\ UNCHANGED <<provider, results, uuidsIssued, clock, skewed, returned, okRequests, calls>>

GetSentimentDistribution ==
    /\ last' = [op |-> "get_sentiment_distribution", out |-> get_sentiment_distribution]
    /\ UNCHANGED <<provider, results, uuidsIssued, clock, skewed, returned, okRequests, calls>>

NextStore ==
    \/ SaveResult
    \/ GetAllResults
    \/ GetResultById
    \/ GetProcessingStats
    \/ GetRecentActivity
    \/ GetSentimentDistribution
    \/ Tick
    \/ ClockAdjust

(* the store and the reports never call the provider: the default one *)
InitStore == Init /\ provider = "huggingface"

SpecStore == InitStore /\ [][NextStore]_vars

----------------------------------------------------------------------------
(* Direct calls of the provider *)


ProviderProcessText ==
    /\ \E text \in ProviderTexts, task \in TaskNames :
         \E b \in BackendResponses(task) :
            LET out == process_text(text, task, b)
            IN  last' = [op |-> "LLMService.process_text", text |-> text, task |-> task,
                         b |-> IF out.backend = <<>> THEN NotCalled ELSE b,
                         out |-> out]
    /\ UNCHANGED <<provider, results, uuidsIssued, clock, skewed, returned, okRequests, calls>>

SpecProvider == Init /\ [][ProviderProcessText]_vars

----------------------------------------------------------------------------
(* The gateway (app/main.py) *)

(* TextRequest.text: min_length = 1 *)
ValidRequest(text) == len(text) >= 1

(* the provider call of the handler, when the handler reaches it *)
llm_call(text, task, b) ==
    IF task \notin {"summarize", "entities", "sentiment"}
    THEN [invoked |-> FALSE]
    ELSE [invoked |-> TRUE, out |-> process_text(text, task, b)]

(* the body of the try block: the record saved, or what was raised *)
try_body(text, task, b) ==
    LET llm == llm_call(text, task, b)
    IN  IF ~llm.invoked
        THEN Raise(HTTPException(400, PyStr("Invalid task")), <<>>)
        ELSE IF llm.out.raised THEN llm.out
        ELSE Return(NewRecord(uuid4, text, llm.out.value, task, now), llm.out.backend)

(* except Exception as e: raise HTTPException(500, ...) *)
route_process_text(text, task, b) ==
    LET body == try_body(text, task, b)
    IN  IF body.raised
        THEN Raise(HTTPException(500, body.exc), body.backend)
        ELSE body

(* mutant: a failed request is stored too, as an error record *)
store_after_always(text, task, b) ==
    LET body == try_body(text, task, b)
        saved == IF body.raised
                 THEN NewRecord(uuid4, text, PyDict([error |-> PyStr("failed")]), task, now)
                 ELSE body.value
    IN  DictSet(results, saved.id, saved)

(* the store once the handler is through *)
store_after(text, task, b) ==
    LET body == try_body(text, task, b)
    IN  IF body.raised THEN results ELSE DictSet(results, body.value.id, body.value)

PostProcess ==
    /\ okRequests < MaxRecords
    /\ \E text \in RequestTexts, task \in TaskNames :
         \E b \in BackendResponses(task) :
            IF ~ValidRequest(text)
            THEN /\ last' = [op |-> "POST /process", text |-> text, task |-> task,
                             status_code |-> 422, payload |-> PyStr("Validation Error"),
                             backend |-> <<>>, llm |-> [invoked |-> FALSE],
                             before |-> results]
                 /\ UNCHANGED <<results, uuidsIssued, returned, okRequests>>
            ELSE LET out == route_process_text(text, task, b)
                 IN  /\ results' = store_after(text, task, b)
                     /\ uuidsIssued' = IF out.raised THEN uuidsIssued ELSE uuidsIssued + 1
                     /\ returned' = IF out.raised THEN returned ELSE Append(returned, out.value)
                     /\ okRequests' = IF out.raised THEN okRequests ELSE okRequests + 1
                     /\ last' = [op |-> "POST /process", text |-> text, task |-> task,
                                 status_code |-> IF out.raised THEN out.exc.status_code ELSE 200,
                                 payload |-> IF out.raised THEN out.exc ELSE out.value,
                                 backend |-> out.backend,
                                 llm |-> llm_call(text, task, b),
                                 before |-> results]
    /\ UNCHANGED <<provider, clock, skewed, calls>>

GetHistory ==
    /\ last' = [op |-> "GET /history", status_code |-> 200, payload |-> get_all_results]
    /\ UNCHANGED <<provider, results, uuidsIssued, clock, skewed, returned, okRequests, calls>>

GetStats ==
    /\ last' = [op |-> "GET /stats", status_code |-> 200, payload |-> get_processing_stats]
    /\ UNCHANGED <<provider, results, uuidsIssued, clock, skewed, returned, okRequests, calls>>

GetRecentActivityRoute ==
    /\ \E hours \in Hours :
         last' = [op |-> "GET /recent-activity", hours |-> hours, at |-> now,
                  status_code |-> 200, payload |-> get_recent_activity(hours)]
    /\ UNCHANGED <<provider, results, uuidsIssued, clock, skewed, returned, okRequests, calls>>

(* an exception of the report reaches general_exception_handler *)
GetSentimentDistributionRoute ==
    /\ LET out == get_sentiment_distribution
       IN  last' = [op |-> "GET /sentiment-distribution",
                    status_code |-> IF out.raised THEN 500 ELSE 200,
                    payload |-> IF out.raised THEN out.exc ELSE out.value]
    /\ UNCHANGED <<provider, results, uuidsIssued, clock, skewed, returned, okRequests, calls>>

(* The handlers are coroutines without an await: the event loop runs each  *)
(* to completion.  Time does not pass in this specification.                *)
Next ==
    \/ PostProcess
    \/ GetHistory
    \/ GetStats
    \/ GetRecentActivityRoute
    \/ GetSentimentDistributionRoute

Spec == Init /\ [][Next]_vars

----------------------------------------------------------------------------
(* Callers inside save_result at the same time: one source line is one     *)
(* step, and the dict store of line 23 is a single step.                    *)

Callers == 1..NumCallers

Started == Len(returned) + Cardinality({c \in Callers : calls[c].pc # "idle"})

Call(c) ==
    /\ calls[c].pc = "idle"
    /\ Started < MaxRecords
    /\ \E inp \in SaveInputs :
         calls' = [calls EXCEPT ![c] = [pc |-> "line12", original_text |-> inp.text,
                                        processed_result |-> inp.result,
                                        task_type |-> inp.task]]
    /\ UNCHANGED <<provider, results, uuidsIssued, clock, skewed, returned, okRequests, last>>

(* result_id = str(uuid.uuid4()) *)
Line12(c) ==
    /\ calls[c].pc = "line12"
    /\ calls' = [calls EXCEPT ![c] = [pc |-> "line13", result_id |-> uuid4] @@ @]
    /\ uuidsIssued' = uuidsIssued + 1
    /\ UNCHANGED <<provider, results, clock, skewed, returned, okRequests, last>>

(* timestamp = datetime.now() *)
Line13(c) ==
    /\ calls[c].pc = "line13"
    /\ calls' = [calls EXCEPT ![c] = [pc |-> "line15", timestamp |-> now] @@ @]
    /\ UNCHANGED <<provider, results, uuidsIssued, clock, skewed, returned, okRequests, last>>

(* result = {...} *)
Line15(c) ==
    /\ calls[c].pc = "line15"
    /\ calls' = [calls EXCEPT ![c] =
                    [pc |-> "line23",
                     result |-> NewRecord(@.result_id, @.original_text, @.processed_result,
                                          @.task_type, @.timestamp)] @@ @]
    /\ UNCHANGED <<provider, results, uuidsIssued, clock, skewed, returned, okRequests, last>>

(* self.results[result_id] = result *)
Line23(c) ==
    /\ calls[c].pc = "line23"
    /\ results' = DictSet(results, calls[c].result_id, calls[c].result)
    /\ calls' = [calls EXCEPT ![c] = [pc |-> "line24"] @@ @]
    /\ UNCHANGED <<provider, uuidsIssued, clock, skewed, returned, okRequests, last>>

(* return result *)
Line24(c) ==
    /\ calls[c].pc = "line24"
    /\ returned' = Append(returned, calls[c].result)
    /\ last' = [op |-> "save_result", caller |-> c,
                text |-> calls[c].original_text, task |-> calls[c].task_type,
                result |-> calls[c].processed_result, ret |-> calls[c].result]
    /\ calls' = [calls EXCEPT ![c] = [pc |-> "idle"]]
    /\ UNCHANGED <<provider, results, uuidsIssued, clock, skewed, okRequests>>

NextConc ==
    \E c \in Callers :
        \/ Call(c)
        \/ Line12(c)
        \/ Line13(c)
        \/ Line15(c)
        \/ Line23(c)
        \/ Line24(c)

SpecConc == InitStore /\ [][NextConc]_vars

----------------------------------------------------------------------------
(* Helpers of the properties *)

Range(seq) == {seq[i] : i \in 1..Len(seq)}

RECURSIVE SumValues(_)
SumValues(f) ==
    IF DOMAIN f = {} THEN 0
    ELSE LET k == CHOOSE x \in DOMAIN f : TRUE
         IN  f[k] + SumValues([x \in (DOMAIN f) \ {k} |-> f[x]])

CountOf(f, k) == IF k \in DOMAIN f THEN f[k] ELSE 0

(* the k-th smallest member of a set of indices *)
KthOf(idx, k) == CHOOSE i \in idx : Cardinality({j \in idx : j < i}) = k - 1

----------------------------------------------------------------------------
(* Properties of the store and of the reports, under SpecStore.  A read     *)
(* recorded in `last` is the most recent call, so nothing was saved since.  *)

(* C1: the store is append-only with unique ids: every record an earlier    *)
(* save_result returned is still stored under its id with the same id,     *)
(* original_text, task_type, processed_result and created_at, and no two    *)
(* stored records share an id.                                              *)
C1_AppendOnlyUniqueIds ==
    /\ \A i \in 1..Len(returned) :
         \E j \in 1..Len(results) :
            /\ results[j].key = returned[i].id
            /\ results[j].value = returned[i]
    /\ \A j, k \in 1..Len(results) :
         j # k => results[j].value.id # results[k].value.id

(* two saves, then a report has run over the store *)
C1_Witness ==
    /\ Len(returned) >= 2
    /\ last.op = "get_sentiment_distribution"

(* C2: a lookup by the id of a record save_result returned yields that      *)
(* record, also after later saves; a lookup by any other id yields None.    *)
C2_LookupAgreesWithSave ==
    /\ \A i \in 1..Len(returned) : get_result_by_id(returned[i].id) = returned[i]
    /\ \A result_id \in QueryIds :
         (\A i \in 1..Len(returned) : returned[i].id # result_id)
            => get_result_by_id(result_id) = PyNone
    /\ last.op = "get_result_by_id" =>
         IF \E i \in 1..Len(returned) : returned[i].id = last.arg
         THEN \A i \in 1..Len(returned) :
                 returned[i].id = last.arg => last.ret = returned[i]
         ELSE last.ret = PyNone

(* the first record saved is looked up after a later save *)
C2_Witness ==
    /\ Len(returned) >= 2
    /\ last.op = "get_result_by_id"
    /\ last.arg = returned[1].id
    /\ last.ret = returned[1]

(* C4: after N saves get_processing_stats returns total_processed = N and  *)
(* per-task counts that equal the number of saved records of each type and *)
(* sum to N; for N = 0 the map is empty and average_text_length is 0.       *)
C4_StatsCountSaves ==
    last.op = "get_processing_stats" =>
        LET st == last.ret
            N == Len(returned)
        IN  /\ st.total_processed = N
            /\ DOMAIN st.by_task_type = {returned[i].task_type : i \in 1..N}
            /\ \A task \in DOMAIN st.by_task_type :
                 st.by_task_type[task] =
                    Cardinality({i \in 1..N : returned[i].task_type = task})
            /\ SumValues(st.by_task_type) = N
            /\ N = 0 => /\ st.by_task_type = <<>>
                        /\ st.average_text_length = 0

(* statistics over two saved records of the same task type *)
C4_Witness ==
    /\ last.op = "get_processing_stats"
    /\ Len(returned) = 2
    /\ returned[1].task_type = returned[2].task_type
    /\ last.ret.total_processed = 2

(* C8 as claimed: get_sentiment_distribution returns counts that sum to the *)
(* number of sentiment records, and counts under UNKNOWN every sentiment    *)
(* record whose label is missing, the empty string or null.                 *)
C8_UnknownBucket ==
    last.op = "get_sentiment_distribution" =>
        LET sr == sentiment_from(DictValues(results), 1)
            unlabelled == {i \in 1..Len(sr) :
                             \/ ~IsDict(sr[i].processed_result)
                             \/ ~HasKey(sr[i].processed_result, "sentiment")
                             \/ sr[i].processed_result.d.sentiment \in {PyStr(""), PyNone}}
        IN  /\ ~last.out.raised
            /\ SumValues(last.out.value) = Len(sr)
            /\ CountOf(last.out.value, PyStr("UNKNOWN")) = Cardinality(unlabelled)

(* C9: get_recent_activity(hours) returns exactly the stored records whose  *)
(* created_at is strictly after (time of the call - hours), in insertion    *)
(* order; while the clock has never gone back, get_recent_activity(0) is    *)
(* empty, also when a record was saved at the clock reading of the query.   *)
C9_RecentActivity ==
    last.op = "get_recent_activity" =>
        LET rs == DictValues(results)
            cutoff == last.at - last.hours * TicksPerHour
            idx == {i \in 1..Len(rs) : rs[i].created_at > cutoff}
        IN  /\ Len(last.ret) = Cardinality(idx)
            /\ \A k \in 1..Len(last.ret) : last.ret[k] = rs[KthOf(idx, k)]
            /\ (last.hours = 0 /\ ~skewed) => last.ret = <<>>

(* a zero-hour query at the clock reading of a save, the clock never set back *)
C9_Witness ==
    /\ last.op = "get_recent_activity"
    /\ last.hours = 0
    /\ ~skewed
    /\ last.at = clock
    /\ \E i \in 1..Len(results) : results[i].value.created_at = last.at
    /\ last.ret = <<>>

----------------------------------------------------------------------------
(* Properties of the provider (SpecProvider) and of the gateway (Spec) *)

(* the number of whitespace-separated words: the places where a word starts *)
WordCount(text) ==
    Cardinality({i \in 1..Len(text.chars) :
                    /\ ~IsSpace(text.chars[i])
                    /\ (i = 1 \/ IsSpace(text.chars[i - 1]))})

ActiveSummarizer == IF provider = "openai" THEN OPENAI_CHAT ELSE HF_SUMMARIZER

(* C5: under either provider, summarize_text on a text of fewer than 30     *)
(* words returns the text unchanged as `summary` with a `note` and calls no *)
(* backend; on 30 words or more it calls the active provider's backend      *)
(* once, and the result built from the backend's summary has no `note`.     *)
C5_ShortTextBypass ==
    (last.op = "LLMService.process_text" /\ last.task = "summarize") =>
        IF WordCount(last.text) < 30
        THEN /\ ~last.out.raised
             /\ last.out.backend = <<>>
             /\ DOMAIN last.out.value.d = {"summary", "note"}
             /\ last.out.value.d.summary = last.text
        ELSE /\ last.out.backend = <<ActiveSummarizer>>
             /\ last.b.called
             /\ ~last.out.raised => DOMAIN last.out.value.d = {"summary"}
             /\ (~last.b.raised /\ last.b.answer # PyNone) => ~last.out.raised

(* a 29-word text of more than 30 characters comes back unchanged *)
C5_Witness ==
    /\ last.op = "LLMService.process_text"
    /\ last.task = "summarize"
    /\ WordCount(last.text) = 29
    /\ len(last.text) > 30
    /\ ~last.out.raised
    /\ last.out.value.d.summary = last.text

SentimentLabels == {PyStr("POSITIVE"), PyStr("NEGATIVE"), PyStr("NEUTRAL")}

SentimentShaped(v) ==
    /\ IsDict(v)
    /\ HasKey(v, "sentiment")
    /\ v.d.sentiment \in SentimentLabels
    /\ HasKey(v, "score")

EntitiesShaped(v) ==
    /\ IsDict(v)
    /\ HasKey(v, "entities")
    /\ IsDict(v.d.entities)

(* the backend answered with content that is not the structure the task expects *)
Unparseable(task, b) ==
    /\ provider = "openai"
    /\ b.called
    /\ ~b.raised
    /\ \/ b.answer = PyNone
       \/ ~b.answer.parses
       \/ (task = "sentiment" /\ ~SentimentShaped(b.answer.doc))
       \/ (task = "entities" /\ ~IsDict(b.answer.doc))

(* C6 as claimed: for every backend response analyze_sentiment and          *)
(* extract_entities return without raising a result of the task's shape,   *)
(* and on content that cannot be parsed as the expected structure they      *)
(* return the fallback (NEUTRAL, 0.5, error / empty entities, error).       *)
C6_NeverRaisesTaskShape ==
    /\ (last.op = "LLMService.process_text" /\ last.task = "sentiment") =>
          /\ ~last.out.raised
          /\ SentimentShaped(last.out.value)
          /\ Unparseable("sentiment", last.b) => last.out.value = SentimentFallback
    /\ (last.op = "LLMService.process_text" /\ last.task = "entities") =>
          /\ ~last.out.raised
          /\ EntitiesShaped(last.out.value)
          /\ Unparseable("entities", last.b) =>
                last.out.value = PyDict([entities |-> PyDict(<<>>), error |-> ENTITY_ERROR])

(* C7 as claimed: an unrecognized task name is an invalid-argument failure: *)
(* LLMService.process_text raises ValueError and runs no operation, and     *)
(* POST /process answers 400 without calling the provider or the store.     *)
C7_InvalidTaskIs400 ==
    /\ (last.op = "LLMService.process_text"
          /\ last.task \notin {"summarize", "entities", "sentiment"}) =>
          /\ last.out.raised
          /\ last.out.exc = Exc("ValueError")
          /\ last.out.backend = <<>>
    /\ (last.op = "POST /process" /\ ValidRequest(last.text)
          /\ last.task \notin {"summarize", "entities", "sentiment"}) =>
          /\ last.status_code = 400
          /\ ~last.llm.invoked
          /\ last.backend = <<>>
          /\ results = last.before

(* C10: a POST /process request adds exactly one record when the provider  *)
(* returns a result and leaves the store unchanged otherwise; the record   *)
(* added carries the request's text and task and the provider's result and *)
(* is the response; the store holds one record per successful request.      *)
C10_OneRecordPerSuccess ==
    /\ Len(results) = okRequests
    /\ last.op = "POST /process" =>
         LET succeeded == /\ ValidRequest(last.text)
                          /\ last.llm.invoked
                          /\ ~last.llm.out.raised
         IN  /\ (last.status_code = 200) <=> succeeded
             /\ succeeded =>
                  /\ Len(results) = Len(last.before) + 1
                  /\ SubSeq(results, 1, Len(last.before)) = last.before
                  /\ results[Len(results)].value = last.payload
                  /\ results[Len(results)].key = last.payload.id
                  /\ last.payload.original_text = last.text
                  /\ last.payload.task_type = last.task
                  /\ last.payload.processed_result = last.llm.out.value
             /\ ~succeeded => results = last.before

(* a second request is stored although its result is the parse fallback *)
C10_Witness ==
    /\ last.op = "POST /process"
    /\ last.status_code = 200
    /\ Len(results) = 2
    /\ HasKey(last.payload.processed_result, "error")

----------------------------------------------------------------------------
(* Property of concurrent saves, under SpecConc *)

Inserted == {c \in Callers : calls[c].pc = "line24"}

(* C3: concurrent save_result calls lose and corrupt nothing: the calls     *)
(* return pairwise distinct ids; every record returned is stored under its  *)
(* id, equal to what the caller was given and built from the caller's       *)
(* arguments; the store holds exactly one record per call that has passed  *)
(* its insertion, hence exactly k once k calls have completed and none is   *)
(* in flight.                                                               *)
C3_ConcurrentSaves ==
    /\ \A i, j \in 1..Len(returned) : i # j => returned[i].id # returned[j].id
    /\ \A i \in 1..Len(returned) : DictGet(results, returned[i].id) = returned[i]
    /\ Len(results) = Len(returned) + Cardinality(Inserted)
    /\ (\A c \in Callers : calls[c].pc = "idle") => Len(results) = Len(returned)
    /\ last.op = "save_result" =>
          /\ last.ret.original_text = last.text
          /\ last.ret.task_type = last.task
          /\ last.ret.processed_result = last.result

(* two overlapping calls: the one that drew the later id returned first *)
C3_Witness ==
    /\ Len(returned) = 2
    /\ returned[1].id > returned[2].id
    /\ \A c \in Callers : calls[c].pc = "idle"
    /\ Len(results) = 2

====
